---- MODULE Spec2Model ----
(***************************************************************************)
(* Model of the execution core of the kyua engine:                         *)
(*   - engine::context (src/engine/context.cpp): the snapshot of the       *)
(*     working directory and of the environment variables;                 *)
(*   - the base_test_case run/execute protocol as exercised by             *)
(*     src/engine/test_case_test.cpp (mock_test_case, capture_hooks).      *)
(***************************************************************************)
EXTENDS Integers, Sequences, FiniteSets, TLC

(***************************************************************************)
(* Bounds of the model.                                                    *)
(***************************************************************************)
\* Number of context objects constructed in one behaviour.
MaxCtx == 2
\* Number of map assignments used to build the env_ argument of a context.
MaxIns == 2
\* Number of test cases that are run, each by its own thread of control.
NumCases == 2

(***************************************************************************)
(* Value domains.                                                          *)
(***************************************************************************)
\* Environment variable names, listed in std::less<std::string> order.
NameOrder == <<"HOME", "X">>
Names == {NameOrder[i] : i \in DOMAIN NameOrder}
\* Environment variable values.
Values == {"1", "2"}
\* Working directories.
Paths == {"/a", "/b"}
\* Marker of a variable that is not set in the process environment.
Unset == "<unset>"

\* utils::optional: none and a present value.
None == <<>>
Some(x) == <<x>>

VARIABLES
    proc_cwd,   \* live working directory of the process
    proc_env,   \* live environment of the process: name -> value or Unset
    ctxs,       \* the context objects constructed so far (their impl)
    made,       \* for each context, the (cwd, env) it was constructed from
    last        \* the last operation applied to contexts and what it returned

ctxvars == <<proc_cwd, proc_env, ctxs, made, last>>

VARIABLES
    configs,    \* the config objects, by address
    kind,       \* the class of each test case
    tcs,        \* the calls of run(): one record per test case that was run
    hooks,      \* the capture_hooks objects handed to run()
    caching,    \* whether all_properties() keeps the mapping it computed
    cache,      \* the mappings kept by all_properties()
    props_obs   \* the last call of all_properties(), what it returned, and
                \* what the call before returned if it was on the same case

runvars == <<configs, kind, tcs, hooks, caching, cache, props_obs>>

vars == <<proc_cwd, proc_env, ctxs, made, last,
          configs, kind, tcs, hooks, caching, cache, props_obs>>

(***************************************************************************)
(* std::map< std::string, std::string >: a sequence of (key, value) pairs  *)
(* kept sorted by key, keys unique.                                        *)
(***************************************************************************)
KeyLess(a, b) ==
    \E i, j \in DOMAIN NameOrder :
        NameOrder[i] = a /\ NameOrder[j] = b /\ i < j

\* Number of entries whose key sorts before k: where k is (to be) stored.
MapLowerBound(m, k) == Cardinality({i \in DOMAIN m : KeyLess(m[i][1], k)})

MapHas(m, k) == \E i \in DOMAIN m : m[i][1] = k

\* m[k] = v
MapAssign(m, k, v) ==
    IF MapHas(m, k)
    THEN [i \in DOMAIN m |-> IF m[i][1] = k THEN <<k, v>> ELSE m[i]]
    ELSE LET n == MapLowerBound(m, k)
         IN  SubSeq(m, 1, n) \o <<<<k, v>>>> \o SubSeq(m, n + 1, Len(m))

\* The map a caller gets from the assignments ins, applied in order.
RECURSIVE BuildMap(_)
BuildMap(ins) ==
    IF ins = <<>> THEN <<>>
    ELSE LET n == Len(ins)
         IN  MapAssign(BuildMap(SubSeq(ins, 1, n - 1)), ins[n][1], ins[n][2])

\* std::map::operator==: same size and equal elements position by position.
MapEq(m1, m2) ==
    /\ Len(m1) = Len(m2)
    /\ \A i \in DOMAIN m1 : m1[i] = m2[i]

(***************************************************************************)
(* The process: fs::current_path() and utils::getallenv().                 *)
(***************************************************************************)
current_path == proc_cwd

\* The variables that are set, as (name, value) pairs.
Environ == {<<k, proc_env[k]>> : k \in {n \in Names : proc_env[n] # Unset}}

\* Walks the environment in whatever order the system lists it and assigns
\* each variable into the map.
RECURSIVE MapOfPairs(_)
MapOfPairs(S) ==
    IF S = {} THEN <<>>
    ELSE LET p == CHOOSE q \in S : TRUE
         IN  MapAssign(MapOfPairs(S \ {p}), p[1], p[2])

getallenv == MapOfPairs(Environ)

(***************************************************************************)
(* engine::context                                                         *)
(***************************************************************************)
\* engine::context::impl::impl and engine::context::context
context(cwd_, env_) == [_cwd |-> cwd_, _env |-> env_]

\* A comparison that forgets the environment.
ImplEq_cwd_only(a, b) == a._cwd = b._cwd

\* engine::context::impl::operator==
ImplEq(a, b) == a._cwd = b._cwd /\ MapEq(a._env, b._env)

\* A capture that forgets the environment.
current_without_env == context(current_path, <<>>)

\* engine::context::current
current == context(current_path, getallenv)

\* An accessor that asks the process instead of the snapshot.
cwd_of_process(c) == current_path

\* engine::context::cwd
cwd(c) == c._cwd

\* engine::context::env
env(c) == c._env

\* engine::context::operator==
ContextEq(a, b) == ImplEq(a, b)

\* engine::context::operator!=
ContextNe(a, b) == ~ContextEq(a, b)

(***************************************************************************)
(* What a context was constructed from, as a plain (cwd, set of pairs).    *)
(***************************************************************************)
\* The assignments of ins that are not overwritten by a later one.
Surviving(ins) ==
    {ins[i] : i \in {j \in DOMAIN ins :
                        \A l \in DOMAIN ins : l > j => ins[l][1] # ins[j][1]}}

Insertions ==
    UNION {[1..n -> Names \X Values] : n \in 0..MaxIns}

(***************************************************************************)
(* The test cases, their configs, hooks and results.                       *)
(***************************************************************************)
Cases == 1..NumCases

\* Addresses of config objects: the mock_config of the test program, and a
\* second object holding the same values.
MockConfig == "&mock_config"
CopyOfMockConfig == "&copy_of_mock_config"
ConfigAddrs == {MockConfig, CopyOfMockConfig}

\* user_files::config mock_config("mock-architecture", "mock-platform", ...)
mock_config == [architecture |-> "mock-architecture",
                platform |-> "mock-platform"]

\* The classes of test case: the mock_test_case of the test program, and a
\* test case whose execute() is any other strategy honouring the contract.
Kinds == {"mock", "plain"}

\* engine::test_result: a state and a message.
States == {"passed", "failed", "skipped", "broken", "expected_failure"}
Messages == {"A test result", "Another message"}
Results == [state : States, message : Messages]

\* capture_hooks as constructed: no path received yet.
capture_hooks == [stdout_path |-> None, stderr_path |-> None]

\* The locations run() may propose to execute(): none, or its defaults.
Proposals == {[stdout |-> None, stderr |-> None],
              [stdout |-> Some("default-stdout.txt"),
               stderr |-> Some("default-stderr.txt")]}

\* Each execution is given its own hooks object by its caller.
run_hooks(i) == i

\* No test case has been run and no property has been asked for.
RunAtRest(kinds, c) ==
    /\ configs = [a \in ConfigAddrs |-> mock_config]
    /\ kind = kinds
    /\ tcs = <<>>
    /\ hooks = <<>>
    /\ caching = c
    /\ cache = <<>>
    /\ props_obs = None

\* No accessor or comparison has been called since the last change.
NoCall == [op |-> "none", a |-> 0, b |-> 0, res |-> None]

\* The process as it starts, when only its contexts are looked at.
InitContext ==
    /\ proc_cwd \in Paths
    /\ proc_env \in [Names -> Values \cup {Unset}]
    /\ ctxs = <<>>
    /\ made = <<>>
    /\ last = NoCall
    /\ RunAtRest([i \in Cases |-> "mock"], FALSE)

\* A caller builds a map with the assignments ins and constructs a context.
Construct(cwd_, ins) ==
    /\ Len(ctxs) < MaxCtx
    /\ ctxs' = Append(ctxs, context(cwd_, BuildMap(ins)))
    /\ made' = Append(made, [cwd |-> cwd_, env |-> Surviving(ins)])
    /\ last' = NoCall
    /\ UNCHANGED <<proc_cwd, proc_env>>
    /\ UNCHANGED runvars

\* context::current()
Current ==
    /\ Len(ctxs) < MaxCtx
    /\ ctxs' = Append(ctxs, current)
    /\ made' = Append(made, [cwd |-> proc_cwd, env |-> Environ])
    /\ last' = NoCall
    /\ UNCHANGED <<proc_cwd, proc_env>>
    /\ UNCHANGED runvars

\* c.cwd()
Cwd(i) ==
    /\ last' = [op |-> "cwd", a |-> i, b |-> 0, res |-> Some(cwd(ctxs[i]))]
    /\ UNCHANGED <<proc_cwd, proc_env, ctxs, made>>
    /\ UNCHANGED runvars

\* c.env()
Env(i) ==
    /\ last' = [op |-> "env", a |-> i, b |-> 0, res |-> Some(env(ctxs[i]))]
    /\ UNCHANGED <<proc_cwd, proc_env, ctxs, made>>
    /\ UNCHANGED runvars

\* A caller evaluates a == b, b == a, a != b and b != a.
Compare(i, j) ==
    /\ last' = [op |-> "compare", a |-> i, b |-> j,
                res |-> Some(<<ContextEq(ctxs[i], ctxs[j]),
                               ContextEq(ctxs[j], ctxs[i]),
                               ContextNe(ctxs[i], ctxs[j]),
                               ContextNe(ctxs[j], ctxs[i])>>)]
    /\ UNCHANGED <<proc_cwd, proc_env, ctxs, made>>
    /\ UNCHANGED runvars

\* The process sets, changes or removes a variable of its environment.
Setenv(k, v) ==
    /\ proc_env[k] # v
    /\ proc_env' = [proc_env EXCEPT ![k] = v]
    /\ last' = NoCall
    /\ UNCHANGED <<proc_cwd, ctxs, made>>
    /\ UNCHANGED runvars

Unsetenv(k) ==
    /\ proc_env[k] # Unset
    /\ proc_env' = [proc_env EXCEPT ![k] = Unset]
    /\ last' = NoCall
    /\ UNCHANGED <<proc_cwd, ctxs, made>>
    /\ UNCHANGED runvars

\* The process changes its working directory.
Chdir(p) ==
    /\ proc_cwd # p
    /\ proc_cwd' = p
    /\ last' = NoCall
    /\ UNCHANGED <<proc_env, ctxs, made>>
    /\ UNCHANGED runvars

\* A process that does not move, when only explicit contexts are looked at.
InitExplicit ==
    /\ proc_cwd = "/a"
    /\ proc_env = [k \in Names |-> Unset]
    /\ ctxs = <<>>
    /\ made = <<>>
    /\ last = NoCall
    /\ RunAtRest([i \in Cases |-> "mock"], FALSE)

\* Contexts constructed from explicit values, read and compared.
NextContext ==
    \/ \E p \in Paths, ins \in Insertions : Construct(p, ins)
    \/ \E i \in DOMAIN ctxs : Cwd(i)
    \/ \E i \in DOMAIN ctxs : Env(i)
    \/ \E i, j \in DOMAIN ctxs : i <= j /\ Compare(i, j)

SpecContext == InitExplicit /\ [][NextContext]_vars

\* A process that takes snapshots of itself and compares them while its
\* environment and working directory change.
NextCapture ==
    \/ Current
    \/ \E i, j \in DOMAIN ctxs : i <= j /\ Compare(i, j)
    \/ \E k \in Names, v \in Values : Setenv(k, v)
    \/ \E k \in Names : Unsetenv(k)
    \/ \E p \in Paths : Chdir(p)

SpecCapture == InitContext /\ [][NextCapture]_vars

\* Contexts of both origins, read while the process changes under them.
NextSnapshot ==
    \/ \E p \in Paths, ins \in Insertions : Construct(p, ins)
    \/ Current
    \/ \E i \in DOMAIN ctxs : Cwd(i)
    \/ \E i \in DOMAIN ctxs : Env(i)
    \/ \E k \in Names, v \in Values : Setenv(k, v)
    \/ \E k \in Names : Unsetenv(k)
    \/ \E p \in Paths : Chdir(p)

SpecSnapshot == InitContext /\ [][NextSnapshot]_vars

(***************************************************************************)
(* Properties of engine::context.                                          *)
(***************************************************************************)
\* The entries of a map, as a set of (name, value) pairs.
AsPairs(m) == {m[i] : i \in DOMAIN m}

\* The value of k in a set of (name, value) pairs, Unset when absent.
Lookup(e, k) == IF \E p \in e : p[1] = k
                THEN (CHOOSE p \in e : p[1] = k)[2]
                ELSE Unset

\* e1 and e2 differ in exactly one variable (added, removed or modified).
OneVarChanged(e1, e2) ==
    Cardinality({k \in Names : Lookup(e1, k) # Lookup(e2, k)}) = 1

SameMade(i, j) == made[i].cwd = made[j].cwd /\ made[i].env = made[j].env

\* C4: two contexts compare equal exactly when they were constructed from
\* the same cwd and the same name -> value mapping, whatever the order in
\* which the entries of the mapping were assigned; a != b is the negation of
\* a == b; and a comparison returns just that.
C4_StructuralEquality ==
    /\ \A i, j \in DOMAIN ctxs :
          /\ ContextEq(ctxs[i], ctxs[j]) <=> SameMade(i, j)
          /\ ContextEq(ctxs[i], ctxs[j]) <=>
                (cwd(ctxs[i]) = cwd(ctxs[j])
                    /\ AsPairs(env(ctxs[i])) = AsPairs(env(ctxs[j])))
          /\ ContextNe(ctxs[i], ctxs[j]) <=> ~ContextEq(ctxs[i], ctxs[j])
    /\ last.op = "compare" =>
          LET same == SameMade(last.a, last.b)
          IN  last.res = Some(<<same, same, ~same, ~same>>)

\* Two distinct contexts with two variables each have been compared and
\* found equal, and two have been compared and found different.
C4_Witness ==
    /\ last.op = "compare"
    /\ last.a # last.b
    /\ last.res = Some(<<TRUE, TRUE, FALSE, FALSE>>)
    /\ Cardinality(made[last.a].env) = 2

\* Every context holds the cwd and the env it was constructed from, and an
\* accessor call returned the constructed value.
HoldsWhatItWasMadeFrom ==
    /\ \A i \in DOMAIN ctxs :
          /\ cwd(ctxs[i]) = made[i].cwd
          /\ AsPairs(env(ctxs[i])) = made[i].env
    /\ last.op = "cwd" => last.res = Some(made[last.a].cwd)
    /\ last.op = "env" => /\ Len(last.res) = 1
                          /\ AsPairs(last.res[1]) = made[last.a].env

\* A step leaves every existing context, and what its accessors return, alone.
NoMutation ==
    \A i \in DOMAIN ctxs :
        /\ i \in DOMAIN ctxs'
        /\ made'[i] = made[i]
        /\ ctxs'[i] = ctxs[i]

C6_CaptureEquality ==
    \A i, j \in DOMAIN ctxs :
        /\ SameMade(i, j) => ContextEq(ctxs[i], ctxs[j])
        /\ OneVarChanged(made[i].env, made[j].env) =>
              /\ ContextNe(ctxs[i], ctxs[j])
              /\ ~ContextEq(ctxs[i], ctxs[j])

\* Two snapshots with one variable changed in between have been compared.
C6_Witness ==
    /\ last.op = "compare"
    /\ last.a # last.b
    /\ made[last.a].cwd = made[last.b].cwd
    /\ OneVarChanged(made[last.a].env, made[last.b].env)

\* Two snapshots of an unchanged process have been compared.
C6_WitnessUnchanged ==
    /\ last.op = "compare"
    /\ last.a # last.b
    /\ SameMade(last.a, last.b)

(***************************************************************************)
(* capture_hooks                                                           *)
(***************************************************************************)
\* A got_stdout that records into one buffer shared by all hooks objects.
got_stdout_shared(hs, h, file) ==
    LET first == CHOOSE x \in DOMAIN hs : \A y \in DOMAIN hs : x <= y
    IN  [hs EXCEPT ![first].stdout_path = Some(file)]

\* capture_hooks::got_stdout, called on the hooks object h of the heap hs
got_stdout(hs, h, file) == [hs EXCEPT ![h].stdout_path = Some(file)]

\* A got_stderr that records into the wrong member.
got_stderr_into_stdout(hs, h, file) == [hs EXCEPT ![h].stdout_path = Some(file)]

\* capture_hooks::got_stderr
got_stderr(hs, h, file) == [hs EXCEPT ![h].stderr_path = Some(file)]

(***************************************************************************)
(* mock_test_case                                                          *)
(***************************************************************************)
\* A provider that names its property differently.
mock_get_all_properties_renamed == MapAssign(<<>>, "second", "value")

\* mock_test_case::get_all_properties
mock_get_all_properties == MapAssign(<<>>, "first", "value")

\* A check with the comparison the wrong way round.
mock_rejects_inverted(config) == config = MockConfig

\* A check that lets every config through.
mock_rejects_never(config) == FALSE

\* if (&config != &mock_config) throw std::runtime_error(...)
mock_rejects(config) == config # MockConfig

\* The paths mock_test_case::execute hands to the hooks.
mock_stdout == "fake-stdout.txt"
mock_stderr == "fake-stderr.txt"

\* An execute() that reports the skipped test as failed.
mock_result_failed == [state |-> "failed", message |-> "A test result"]

\* return engine::test_result(engine::test_result::skipped, "A test result")
mock_result == [state |-> "skipped", message |-> "A test result"]

(***************************************************************************)
(* Any other execute(): it uses the locations run() proposes when there    *)
(* are some and files of its own otherwise, does not look at the identity  *)
(* of the config, and may return any result.                               *)
(***************************************************************************)
plain_stdout(i, prop) ==
    IF prop.stdout # None THEN prop.stdout[1]
    ELSE "work-" \o ToString(i) \o "/stdout.txt"

plain_stderr(i, prop) ==
    IF prop.stderr # None THEN prop.stderr[1]
    ELSE "work-" \o ToString(i) \o "/stderr.txt"

(***************************************************************************)
(* The virtual methods, dispatched on the class of the test case.          *)
(***************************************************************************)
get_all_properties(i) == mock_get_all_properties

execute_throws(i, config) == kind[i] = "mock" /\ mock_rejects(config)

execute_stdout(i, prop) ==
    IF kind[i] = "mock" THEN mock_stdout ELSE plain_stdout(i, prop)

execute_stderr(i, prop) ==
    IF kind[i] = "mock" THEN mock_stderr ELSE plain_stderr(i, prop)

execute_results(i) == IF kind[i] = "mock" THEN {mock_result} ELSE Results

(***************************************************************************)
(* base_test_case::run                                                     *)
(***************************************************************************)
\* The config run() hands to execute(): the reference it was given.
run_passes_config(config) == config

\* What run() returns when execute() returned r.
run_returns(r) == r

\* A run() that goes round again instead of returning.
run_after_return_retry == "executing"

\* Where run() stands once execute() has returned: it returns.
run_after_return == "completed"

\* Where run() stands once execute() has thrown: the error leaves run().
run_after_throw == "raised"

Started == DOMAIN tcs

\* A caller constructs a hooks object and calls run(config, hooks) on test
\* case i; run() selects the locations to propose.
Run(i, config, prop) ==
    /\ i \notin Started
    /\ tcs' = (i :> [pc |-> "executing", epc |-> "idle",
                     run_config |-> config, exec_config |-> None,
                     proposed |-> prop, reported |-> capture_hooks,
                     exec_ret |-> None, ret |-> None, nexec |-> 0]) @@ tcs
    /\ hooks' = (run_hooks(i) :> capture_hooks) @@ hooks
    /\ UNCHANGED <<configs, kind, caching, cache, props_obs>>
    /\ UNCHANGED ctxvars

\* run() invokes execute(config, hooks, stdout_path, stderr_path).
ExecEnter(i) ==
    /\ i \in Started
    /\ tcs[i].pc = "executing"
    /\ tcs[i].epc = "idle"
    /\ tcs' = [tcs EXCEPT ![i].epc = "check",
                          ![i].exec_config =
                              Some(run_passes_config(tcs[i].run_config)),
                          ![i].nexec = @ + 1]
    /\ UNCHANGED <<configs, kind, hooks, caching, cache, props_obs>>
    /\ UNCHANGED ctxvars

\* execute(): the check of the config; a throw unwinds through run().
ExecCheck(i) ==
    /\ i \in Started
    /\ tcs[i].epc = "check"
    /\ tcs' = IF execute_throws(i, tcs[i].exec_config[1])
              THEN [tcs EXCEPT ![i].epc = "idle", ![i].pc = run_after_throw]
              ELSE [tcs EXCEPT ![i].epc = "stdout"]
    /\ UNCHANGED <<configs, kind, hooks, caching, cache, props_obs>>
    /\ UNCHANGED ctxvars

\* execute(): hooks.got_stdout(...)
ExecStdout(i) ==
    /\ i \in Started
    /\ tcs[i].epc = "stdout"
    /\ LET file == execute_stdout(i, tcs[i].proposed)
       IN  /\ hooks' = got_stdout(hooks, run_hooks(i), file)
           /\ tcs' = [tcs EXCEPT ![i].epc = "stderr",
                                 ![i].reported.stdout_path = Some(file)]
    /\ UNCHANGED <<configs, kind, caching, cache, props_obs>>
    /\ UNCHANGED ctxvars

\* execute(): hooks.got_stderr(...)
ExecStderr(i) ==
    /\ i \in Started
    /\ tcs[i].epc = "stderr"
    /\ LET file == execute_stderr(i, tcs[i].proposed)
       IN  /\ hooks' = got_stderr(hooks, run_hooks(i), file)
           /\ tcs' = [tcs EXCEPT ![i].epc = "return",
                                 ![i].reported.stderr_path = Some(file)]
    /\ UNCHANGED <<configs, kind, caching, cache, props_obs>>
    /\ UNCHANGED ctxvars

\* execute() returns r and run() returns what it makes of it.
ExecReturn(i) ==
    /\ i \in Started
    /\ tcs[i].epc = "return"
    /\ \E r \in execute_results(i) :
          tcs' = [tcs EXCEPT ![i].epc = "idle",
                            ![i].exec_ret = Some(r),
                            ![i].ret = Some(run_returns(r)),
                            ![i].pc = run_after_return]
    /\ UNCHANGED <<configs, kind, hooks, caching, cache, props_obs>>
    /\ UNCHANGED ctxvars

\* base_test_case::all_properties
AllProperties(i) ==
    /\ kind[i] = "mock"
    /\ LET value == IF caching /\ i \in DOMAIN cache
                    THEN cache[i]
                    ELSE get_all_properties(i)
           prev == IF props_obs # None /\ props_obs[1].tc = i
                   THEN Some(props_obs[1].value)
                   ELSE None
       IN  /\ props_obs' = Some([tc |-> i, value |-> value, prev |-> prev])
           /\ cache' = IF caching THEN (i :> value) @@ cache ELSE cache
    /\ UNCHANGED <<configs, kind, tcs, hooks, caching>>
    /\ UNCHANGED ctxvars

\* The process when only its test cases are looked at.
CtxAtRest ==
    /\ proc_cwd = "/a"
    /\ proc_env = [k \in Names |-> Unset]
    /\ ctxs = <<>>
    /\ made = <<>>
    /\ last = NoCall

Init ==
    /\ CtxAtRest
    /\ \E kinds \in [Cases -> Kinds] : RunAtRest(kinds, FALSE)

Next ==
    \/ \E i \in Cases, c \in ConfigAddrs, d \in Proposals : Run(i, c, d)
    \/ \E i \in Cases : ExecEnter(i)
    \/ \E i \in Cases : ExecCheck(i)
    \/ \E i \in Cases : ExecStdout(i)
    \/ \E i \in Cases : ExecStderr(i)
    \/ \E i \in Cases : ExecReturn(i)

Spec == Init /\ [][Next]_vars

\* Mock test cases that are run and asked for their properties.
InitProps ==
    /\ CtxAtRest
    /\ \E c \in BOOLEAN : RunAtRest([i \in Cases |-> "mock"], c)

NextProps ==
    \/ \E i \in Cases, c \in ConfigAddrs, d \in Proposals : Run(i, c, d)
    \/ \E i \in Cases : ExecEnter(i)
    \/ \E i \in Cases : ExecCheck(i)
    \/ \E i \in Cases : ExecStdout(i)
    \/ \E i \in Cases : ExecStderr(i)
    \/ \E i \in Cases : ExecReturn(i)
    \/ \E i \in Cases : AllProperties(i)

SpecProps == InitProps /\ [][NextProps]_vars

(***************************************************************************)
(* Properties of the run/execute protocol.                                 *)
(***************************************************************************)
\* What base_test_case__run__delegate requires of mock_test_case.
exp_result == [state |-> "skipped", message |-> "A test result"]
exp_stdout == "fake-stdout.txt"
exp_stderr == "fake-stderr.txt"

\* What base_test_case__all_properties__delegate requires.
exp_properties == MapAssign(<<>>, "first", "value")

Completed(i) == i \in Started /\ tcs[i].pc = "completed"

\* C1: once run() has returned, what it returned is the result execute()
\* returned, state and message, whatever the state; for the mock test case
\* it is the skipped result "A test result".
C1_RunReturnsExecuteResult ==
    \A i \in Started :
        tcs[i].pc = "completed" =>
            /\ tcs[i].ret # None
            /\ tcs[i].ret = tcs[i].exec_ret
            /\ kind[i] = "mock" => tcs[i].ret = Some(exp_result)

\* run() has returned for a mock test case, and for another test case
\* whose execute() returned a broken result with another message.
C1_Witness ==
    \E i, j \in Cases :
        /\ Completed(i) /\ kind[i] = "mock"
        /\ Completed(j) /\ kind[j] = "plain"
        /\ tcs[j].ret = Some([state |-> "broken",
                              message |-> "Another message"])

\* C2: the config execute() receives is the object the caller gave to
\* run(), by address; so the mock execute(), which compares addresses,
\* never throws when run() is called with mock_config itself.
C2_ConfigIdentity ==
    \A i \in Started :
        /\ tcs[i].exec_config # None =>
              tcs[i].exec_config = Some(tcs[i].run_config)
        /\ (kind[i] = "mock" /\ tcs[i].run_config = MockConfig) =>
              tcs[i].pc # "raised"

\* The mock execute() was run with mock_config and got through.
C2_Witness ==
    \E i \in Cases :
        /\ Completed(i) /\ kind[i] = "mock"
        /\ tcs[i].exec_config = Some(MockConfig)

\* C3: the hooks object holds exactly the locations execute() reported, at
\* any time and in particular once run() has returned: both of them then,
\* for the mock test case fake-stdout.txt and fake-stderr.txt, whatever
\* run() proposed.
C3_HooksObserveReported ==
    \A i \in Started :
        /\ hooks[run_hooks(i)] = tcs[i].reported
        /\ tcs[i].pc = "completed" =>
              /\ hooks[run_hooks(i)].stdout_path # None
              /\ hooks[run_hooks(i)].stderr_path # None
              /\ kind[i] = "mock" =>
                    /\ hooks[run_hooks(i)].stdout_path = Some(exp_stdout)
                    /\ hooks[run_hooks(i)].stderr_path = Some(exp_stderr)

\* run() proposed its default locations, execute() reported others, and
\* run() has returned.
C3_Witness ==
    \E i \in Cases :
        /\ Completed(i)
        /\ tcs[i].proposed.stdout # None
        /\ tcs[i].proposed.stderr # None
        /\ hooks[run_hooks(i)].stdout_path # tcs[i].proposed.stdout
        /\ hooks[run_hooks(i)].stderr_path # tcs[i].proposed.stderr

\* C7: every call of all_properties() returns the mapping of the provider,
\* which is {first: value}; what is kept for later calls is that mapping;
\* and a call that follows a call on the same test case returns the same.
C7_AllProperties ==
    /\ \A i \in DOMAIN cache : cache[i] = get_all_properties(i)
    /\ props_obs # None =>
          /\ props_obs[1].value = get_all_properties(props_obs[1].tc)
          /\ MapEq(props_obs[1].value, exp_properties)
          /\ props_obs[1].prev # None =>
                props_obs[1].prev = Some(props_obs[1].value)

\* all_properties() was called twice in a row on a test case whose run()
\* has returned, and answered from what it kept.
C7_Witness ==
    /\ props_obs # None
    /\ props_obs[1].prev # None
    /\ caching
    /\ Completed(props_obs[1].tc)

\* all_properties() was called twice in a row, before run(), and computed
\* the mapping both times.
C7_WitnessBeforeRun ==
    /\ props_obs # None
    /\ props_obs[1].prev # None
    /\ ~caching
    /\ props_obs[1].tc \notin Started

\* C8: when the mock execute() is handed, through run(), a config that is
\* not mock_config itself, the call of run() ends with the error: run()
\* returns no result, execute() returned none, and execute() is not
\* invoked a second time.
C8_IdentityViolationIsFatal ==
    \A i \in Started :
        /\ (/\ kind[i] = "mock"
            /\ tcs[i].run_config # MockConfig
            /\ tcs[i].nexec > 0
            /\ tcs[i].epc # "check") => tcs[i].pc = "raised"
        /\ tcs[i].pc = "raised" =>
              /\ tcs[i].ret = None
              /\ tcs[i].exec_ret = None
              /\ tcs[i].nexec = 1
              /\ tcs[i].epc = "idle"

\* run() was called with an equal copy of mock_config and ended in error.
C8_Witness ==
    \E i \in Started :
        /\ tcs[i].pc = "raised"
        /\ tcs[i].run_config # MockConfig
        /\ configs[tcs[i].run_config] = configs[MockConfig]

\* Where a call of run() may stand.
LifecycleState ==
    \A i \in Started :
        /\ tcs[i].pc \in {"executing", "completed", "raised"}
        /\ tcs[i].nexec <= 1
        /\ tcs[i].epc # "idle" => tcs[i].pc = "executing" /\ tcs[i].nexec = 1
        /\ tcs[i].pc = "completed" <=> tcs[i].exec_ret # None
        /\ tcs[i].pc = "completed" <=> tcs[i].ret # None
        /\ tcs[i].pc = "completed" => tcs[i].nexec = 1

\* How a call of run() may move.
LifecycleStep ==
    \A i \in Started :
        /\ i \in DOMAIN tcs'
        /\ tcs'[i].pc # tcs[i].pc =>
              /\ tcs[i].pc = "executing"
              /\ tcs'[i].pc \in {"completed", "raised"}
        /\ tcs[i].pc # "executing" => tcs'[i] = tcs[i]
        /\ tcs'[i].nexec >= tcs[i].nexec

\* C9: a call of run() goes from not started to executing to completed (or
\* ends with the error of execute()); execute() is invoked once; the call
\* is completed exactly when execute() has returned, with no state in
\* between; and a call that is over never moves again.
C9_RunLifecycle == []LifecycleState /\ [][LifecycleStep]_vars

\* One call of run() is completed while another is inside execute().
C9_Witness ==
    \E i, j \in Started :
        /\ tcs[i].pc = "completed"
        /\ tcs[j].pc = "executing" /\ tcs[j].epc = "stderr"

\* C10: with one hooks object per call of run() and one config for all,
\* every hooks object holds nothing but the locations of its own
\* execution, every call that is over returned the result of its own
\* execute(), and the config objects are as they were.
C10_ConcurrentIsolation ==
    /\ DOMAIN hooks = {run_hooks(i) : i \in Started}
    /\ configs = [a \in ConfigAddrs |-> mock_config]
    /\ \A i \in Started :
          /\ hooks[run_hooks(i)].stdout_path \in
                {None, Some(execute_stdout(i, tcs[i].proposed))}
          /\ hooks[run_hooks(i)].stderr_path \in
                {None, Some(execute_stderr(i, tcs[i].proposed))}
          /\ tcs[i].epc \in {"stderr", "return"} =>
                hooks[run_hooks(i)].stdout_path # None
          /\ tcs[i].pc = "completed" =>
                /\ hooks[run_hooks(i)].stderr_path # None
                /\ tcs[i].ret = tcs[i].exec_ret

\* Two calls of run() with the same config are inside execute() at once,
\* and their hooks objects hold different locations.
C10_Witness ==
    \E i, j \in Started :
        /\ i # j
        /\ tcs[i].run_config = tcs[j].run_config
        /\ tcs[i].epc = "stderr"
        /\ tcs[j].epc = "return"
        /\ hooks[run_hooks(i)].stdout_path # hooks[run_hooks(j)].stdout_path

====
